---- MODULE Spec2Model ----
(***************************************************************************)
(* Level packaging of the decompiler's level extractor                     *)
(* (decompiler/level_extractor/extract_level.cpp): the partition-root      *)
(* locator and validator, the texture collator, the drawable-tree          *)
(* dispatcher, the two packagers and the parallel driver.                  *)
(*                                                                         *)
(* Strings on which the code computes (archive names, record names, page   *)
(* and texture names, output file names) are sequences of one-character    *)
(* strings, so that substr, ends_with, tolower and concatenation are       *)
(* computed as the code computes them.  Type tags and symbol names, which  *)
(* the code only compares, are plain strings.                              *)
(***************************************************************************)
EXTENDS Integers, Sequences, FiniteSets, TLC

(***************************************************************************)
(* Bounds of the model.                                                    *)
(***************************************************************************)
\* longest level-name list handed to extract_all_levels
MaxLevels == 2
\* number of tasks the thread group runs at the same time
MaxWorkers == 2

(***************************************************************************)
(* String primitives.                                                      *)
(***************************************************************************)
UpperCase ==
  <<"A","B","C","D","E","F","G","H","I","J","K","L","M",
    "N","O","P","Q","R","S","T","U","V","W","X","Y","Z">>

LowerCase ==
  <<"a","b","c","d","e","f","g","h","i","j","k","l","m",
    "n","o","p","q","r","s","t","u","v","w","x","y","z">>

\* tolower(c) of <cctype>, "C" locale
tolower(c) ==
  IF \E k \in DOMAIN UpperCase : UpperCase[k] = c
    THEN LowerCase[CHOOSE k \in DOMAIN UpperCase : UpperCase[k] = c]
    ELSE c

\* the loop of lines 40-42: every character lower-cased in place
LowerCased(s) ==
  [k \in DOMAIN s |-> tolower(s[k])]

\* str_util::ends_with(s, suffix)
ends_with(s, suffix) ==
  /\ Len(s) >= Len(suffix)
  /\ SubSeq(s, Len(s) - Len(suffix) + 1, Len(s)) = suffix

\* s.substr(0, s.length() - 4): length() is unsigned, so for a string shorter
\* than 4 characters the count wraps to a huge value and substr, which clamps
\* the count to the size of the string, returns the whole string.
StripLast4(s) ==
  IF Len(s) >= 4 THEN SubSeq(s, 1, Len(s) - 4) ELSE s

\* s.substr(s.length() - 4), only evaluated when s.length() > 4
Last4(s) ==
  SubSeq(s, Len(s) - 3, Len(s))

RECURSIVE Decimal(_)
\* "{}" of fmt::format applied to a non-negative int
Decimal(n) ==
  LET digits == <<"0","1","2","3","4","5","6","7","8","9">>
  IN  IF n < 10 THEN <<digits[n + 1]>>
      ELSE Decimal(n \div 10) \o <<digits[(n % 10) + 1]>>

Suffix_vis == <<"-","v","i","s">>
Suffix_ag == <<"-","a","g">>
Ext_DGO == <<".","D","G","O">>
Ext_CGO == <<".","C","G","O">>
Ext_fr3 == <<".","f","r","3">>

(***************************************************************************)
(* get_bsp_file: the partition-root locator.                               *)
(* The result is [assert, result]: assert is TRUE when ASSERT(!found)      *)
(* fails; result is the std::optional, <<>> for nullopt and <<r>> for r.   *)
(***************************************************************************)
\* variant of IsVisName: the name must be longer than five characters
IsVisName_Longer(name) ==
  Len(name) > 5 /\ SubSeq(name, Len(name) - 3, Len(name)) = <<"-","v","i","s">>

\* the test of line 30
IsVisName(name) ==
  Len(name) > 4 /\ Last4(name) = Suffix_vis

RECURSIVE ScanForVis_LastWins(_, _, _, _)
\* variant of ScanForVis: a second root replaces the first
ScanForVis_LastWins(records, k, found, result) ==
  IF k > Len(records) THEN [assert |-> FALSE, result |-> result]
  ELSE IF Len(records[k].name) > 4 /\ Last4(records[k].name) = Suffix_vis
    THEN ScanForVis_LastWins(records, k + 1, TRUE, <<records[k]>>)
    ELSE ScanForVis_LastWins(records, k + 1, found, result)

RECURSIVE ScanForVis(_, _, _, _)
\* the loop of lines 29-35, from record k on
ScanForVis(records, k, found, result) ==
  IF k > Len(records) THEN [assert |-> FALSE, result |-> result]
  ELSE IF IsVisName(records[k].name)
    THEN IF found
           THEN [assert |-> TRUE, result |-> result]
           ELSE ScanForVis(records, k + 1, TRUE, <<records[k]>>)
    ELSE ScanForVis(records, k + 1, found, result)

\* variant of Back: the first element
Back_Front(seq) ==
  seq[1]

\* std::vector::back, lines 43-44
Back(seq) ==
  seq[Len(seq)]

\* variant of get_bsp_file: the fallback returns the first record that bears
\* the archive's name
get_bsp_file_FirstMatch(records, dgo_name) ==
  LET scan == ScanForVis(records, 1, FALSE, <<>>)
      expected_name == LowerCased(StripLast4(dgo_name))
      matches == {k \in DOMAIN records : records[k].name = expected_name}
  IN  IF scan.assert THEN [assert |-> TRUE, result |-> <<>>]
      ELSE IF /\ scan.result = <<>>
              /\ (ends_with(dgo_name, Ext_DGO) \/ ends_with(dgo_name, Ext_CGO))
              /\ matches # {}
             THEN [assert |-> FALSE,
                   result |-> <<records[CHOOSE k \in matches : \A m \in matches : k <= m]>>]
             ELSE [assert |-> FALSE, result |-> scan.result]

get_bsp_file(records, dgo_name) ==
  LET scan == ScanForVis(records, 1, FALSE, <<>>)
  IN  IF scan.assert THEN [assert |-> TRUE, result |-> <<>>]
      ELSE IF /\ scan.result = <<>>
              /\ (ends_with(dgo_name, Ext_DGO) \/ ends_with(dgo_name, Ext_CGO))
              /\ records # <<>>
              /\ LowerCased(StripLast4(dgo_name)) = Back(records).name
             THEN [assert |-> FALSE, result |-> <<Back(records)>>]
             ELSE [assert |-> FALSE, result |-> scan.result]

(***************************************************************************)
(* is_valid_bsp: the validator.  read_first tells whether the first word   *)
(* was read; thrown is TRUE when .at(0) finds no segment or no word.       *)
(***************************************************************************)
\* variant of is_valid_bsp: the first word is looked at before the segment count
is_valid_bsp_WordFirst(file) ==
  IF file.words_by_seg = <<>> \/ file.words_by_seg[1] = <<>>
    THEN [ok |-> FALSE, read_first |-> TRUE, thrown |-> TRUE]
  ELSE IF file.words_by_seg[1][1].kind # "TYPE_PTR"
    THEN [ok |-> FALSE, read_first |-> TRUE, thrown |-> FALSE]
  ELSE IF file.words_by_seg[1][1].symbol_name # "bsp-header"
    THEN [ok |-> FALSE, read_first |-> TRUE, thrown |-> FALSE]
  ELSE [ok |-> file.segments = 1, read_first |-> TRUE, thrown |-> FALSE]

is_valid_bsp(file) ==
  IF file.segments # 1
    THEN [ok |-> FALSE, read_first |-> FALSE, thrown |-> FALSE]
  ELSE IF file.words_by_seg = <<>> \/ file.words_by_seg[1] = <<>>
    THEN [ok |-> FALSE, read_first |-> TRUE, thrown |-> TRUE]
  ELSE IF file.words_by_seg[1][1].kind # "TYPE_PTR"
    THEN [ok |-> FALSE, read_first |-> TRUE, thrown |-> FALSE]
  ELSE IF file.words_by_seg[1][1].symbol_name # "bsp-header"
    THEN [ok |-> FALSE, read_first |-> TRUE, thrown |-> FALSE]
  ELSE [ok |-> TRUE, read_first |-> TRUE, thrown |-> FALSE]

(***************************************************************************)
(* The output level record, tfrag3::Level, as this file fills it:          *)
(* level_name, textures, and `extracted`, the contributions of the         *)
(* extractors in the order of their calls.  An extractor is an external    *)
(* collaborator; its contribution is the record of its call.               *)
(***************************************************************************)
EmptyLevel ==
  [level_name |-> <<>>, textures |-> <<>>, extracted |-> <<>>]

\* std::map::at / std::unordered_map::at: throws std::out_of_range on a missing key
HasKey(map, key) ==
  key \in DOMAIN map

RECURSIVE Ascending(_)
\* iteration order of a std::set<u32>
Ascending(ids) ==
  IF ids = {} THEN <<>>
  ELSE LET least == CHOOSE x \in ids : \A y \in ids : x <= y
       IN  <<least>> \o Ascending(ids \ {least})

RECURSIVE CopyTextures_NoPage(_, _, _, _)
\* variant of CopyTextures: the debug name is the texture name alone
CopyTextures_NoPage(lev, ids, k, tex_db) ==
  IF k > Len(ids) THEN [fatal |-> "", lev |-> lev]
  ELSE IF ~HasKey(tex_db.textures, ids[k]) THEN [fatal |-> "throw", lev |-> lev]
  ELSE LET tex == tex_db.textures[ids[k]]
       IN  IF ~HasKey(tex_db.tpage_names, tex.page) THEN [fatal |-> "throw", lev |-> lev]
           ELSE LET new_tex == [combo_id |-> ids[k],
                                w |-> tex.w,
                                h |-> tex.h,
                                debug_tpage_name |-> tex_db.tpage_names[tex.page],
                                debug_name |-> tex.name,
                                data |-> tex.rgba_bytes,
                                load_to_pool |-> TRUE]
                IN  CopyTextures_NoPage([lev EXCEPT !.textures = Append(@, new_tex)],
                                        ids, k + 1, tex_db)

RECURSIVE CopyTextures(_, _, _, _)
\* the loop of lines 80-92 over the ids from position k on
CopyTextures(lev, ids, k, tex_db) ==
  IF k > Len(ids) THEN [fatal |-> "", lev |-> lev]
  ELSE IF ~HasKey(tex_db.textures, ids[k]) THEN [fatal |-> "throw", lev |-> lev]
  ELSE LET tex == tex_db.textures[ids[k]]
       IN  IF ~HasKey(tex_db.tpage_names, tex.page) THEN [fatal |-> "throw", lev |-> lev]
           ELSE LET new_tex == [combo_id |-> ids[k],
                                w |-> tex.w,
                                h |-> tex.h,
                                debug_tpage_name |-> tex_db.tpage_names[tex.page],
                                debug_name |-> tex_db.tpage_names[tex.page] \o tex.name,
                                data |-> tex.rgba_bytes,
                                load_to_pool |-> TRUE]
                IN  CopyTextures([lev EXCEPT !.textures = Append(@, new_tex)],
                                 ids, k + 1, tex_db)

\* variant of add_all_textures_from_level: the list is not required to be empty
add_all_textures_from_level_NoCheck(lev, level_name, tex_db) ==
  IF ~HasKey(tex_db.texture_ids_per_level, level_name) THEN [fatal |-> "", lev |-> lev]
  ELSE CopyTextures(lev, Ascending(tex_db.texture_ids_per_level[level_name]), 1, tex_db)

add_all_textures_from_level(lev, level_name, tex_db) ==
  IF lev.textures # <<>> THEN [fatal |-> "assert", lev |-> lev]
  ELSE IF ~HasKey(tex_db.texture_ids_per_level, level_name) THEN [fatal |-> "", lev |-> lev]
  ELSE CopyTextures(lev, Ascending(tex_db.texture_ids_per_level[level_name]), 1, tex_db)

RECURSIVE CompareTextures_SizeOnly(_, _, _, _)
\* variant of CompareTextures: two entries are compared by their sizes
CompareTextures_SizeOnly(tex_db, order, k, tex_dupl) ==
  IF k > Len(order) THEN ""
  ELSE LET tex == tex_db.textures[order[k]]
       IN  IF ~HasKey(tex_db.tpage_names, tex.page) THEN "throw"
           ELSE LET name == tex_db.tpage_names[tex.page] \o tex.name
                IN  IF ~HasKey(tex_dupl, name)
                      THEN CompareTextures_SizeOnly(tex_db, order, k + 1,
                             [n \in DOMAIN tex_dupl \cup {name} |->
                                IF n = name THEN tex.rgba_bytes ELSE tex_dupl[n]])
                    ELSE IF Len(tex_dupl[name]) = Len(tex.rgba_bytes)
                      THEN CompareTextures_SizeOnly(tex_db, order, k + 1, tex_dupl)
                    ELSE "assert"

RECURSIVE CompareTextures(_, _, _, _)
\* the loop of lines 98-110; order is the iteration order of the unordered_map
CompareTextures(tex_db, order, k, tex_dupl) ==
  IF k > Len(order) THEN ""
  ELSE LET tex == tex_db.textures[order[k]]
       IN  IF ~HasKey(tex_db.tpage_names, tex.page) THEN "throw"
           ELSE LET name == tex_db.tpage_names[tex.page] \o tex.name
                IN  IF ~HasKey(tex_dupl, name)
                      THEN CompareTextures(tex_db, order, k + 1,
                             [n \in DOMAIN tex_dupl \cup {name} |->
                                IF n = name THEN tex.rgba_bytes ELSE tex_dupl[n]])
                    ELSE IF tex_dupl[name] = tex.rgba_bytes
                      THEN CompareTextures(tex_db, order, k + 1, tex_dupl)
                    ELSE "assert"

\* "" when the verification completes, "assert" when ASSERT_MSG(false, ...) is reached
confirm_textures_identical(tex_db, order) ==
  CompareTextures(tex_db, order, 1, [n \in {} |-> <<>>])

\* the iteration orders an unordered_map of these keys can have
IterationOrders(keys) ==
  {order \in [1..Cardinality(keys) -> keys] :
     \A a, b \in DOMAIN order : a # b => order[a] # order[b]}

\* the test of line 120
IsAgName(name) ==
  Len(name) > 3 /\ SubSeq(name, Len(name) - 2, Len(name)) = Suffix_ag

RECURSIVE MercLoop(_, _, _, _)
\* the loop of lines 119-124 from record k on
MercLoop(files, k, tex_remap, level_data) ==
  IF k > Len(files) THEN level_data
  ELSE IF IsAgName(files[k].name)
    THEN MercLoop(files, k + 1, tex_remap,
           [level_data EXCEPT !.extracted =
              Append(@, [fn |-> "extract_merc", name |-> files[k].name, index |-> -1,
                         tex_remap |-> tex_remap, arg |-> <<>>])])
    ELSE MercLoop(files, k + 1, tex_remap, level_data)

extract_art_groups_from_level(db, tex_db, tex_remap, dgo_name, level_data) ==
  IF ~HasKey(db.obj_files_by_dgo, dgo_name)
    THEN [fatal |-> "throw", level_data |-> level_data]
    ELSE [fatal |-> "",
          level_data |-> MercLoop(db.obj_files_by_dgo[dgo_name], 1, tex_remap, level_data)]

(***************************************************************************)
(* extract_bsp_from_level: locator, validator gate, decoding of the        *)
(* partition root and dispatch of its drawable trees.                      *)
(*                                                                         *)
(* A record of the archive database carries its decoded object data        *)
(* (lookup_record) as linked_data: the segment count, the words of each    *)
(* segment and, under bsp, what BspHeader::read_from_file decodes from it: *)
(* the trees, the declared length of the tree array, the texture-remap     *)
(* table and the texture flags.                                            *)
(***************************************************************************)
tfrag_trees ==
  {"drawable-tree-tfrag", "drawable-tree-trans-tfrag", "drawable-tree-tfrag-trans",
   "drawable-tree-dirt-tfrag", "drawable-tree-tfrag-water", "drawable-tree-ice-tfrag",
   "drawable-tree-lowres-tfrag", "drawable-tree-lowres-trans-tfrag"}

\* variant of AllTies: the ties stored before the first collision tree
AllTies_BeforeCollide(trees) ==
  SelectSeq([k \in DOMAIN trees |-> k],
            LAMBDA k : /\ trees[k].my_type = "drawable-tree-instance-tie"
                       /\ \A j \in 1..k : trees[j].my_type # "drawable-tree-collide-fragment")

\* the first pass, lines 163-169: the positions of the trees that are
\* DrawableTreeInstanceTie, in stored order
AllTies(trees) ==
  SelectSeq([k \in DOMAIN trees |-> k],
            LAMBDA k : trees[k].my_type = "drawable-tree-instance-tie")

\* lines 176-180
ExpectedMissingTextures(hacks, level_name) ==
  IF HasKey(hacks.missing_textures_by_level, level_name)
    THEN hacks.missing_textures_by_level[level_name]
    ELSE <<>>

\* lines 181-186
AtestDisableFlag(version, bsp_header) ==
  version = "Jak2" /\ bsp_header.texture_flags[1] % 2 = 1

\* fmt::format("{}-{}<suffix>", dgo_name, i)
TreeName(dgo_name, i, suffix) ==
  dgo_name \o <<"-">> \o Decimal(i) \o suffix

\* variant of Unsupported: a skipped tree uses up a tree index
Unsupported_CountsIndex(st) ==
  [st EXCEPT !.i = @ + 1]

\* lines 209-211: the tree is reported; i and got_collide stay as they are
Unsupported(st) ==
  st

\* variant of IsCollideBranch: the option is not looked at
IsCollideBranch_IgnoresOption(type, extract_collision) ==
  type = "drawable-tree-collide-fragment"

\* the condition of line 201
IsCollideBranch(type, extract_collision) ==
  type = "drawable-tree-collide-fragment" /\ extract_collision

\* variant of CollideGate: a second collision tree is let through
CollideGate_Open(got_collide) ==
  ""

\* line 205: ASSERT(!got_collide)
CollideGate(got_collide) ==
  IF got_collide THEN "assert" ELSE ""

RECURSIVE DispatchTrees(_, _, _, _, _, _, _, _, _)
\* the second pass, lines 172-212, from tree k on, with the running tree
\* index i and the got_collide flag
DispatchTrees(db, dgo_name, hacks, extract_collision, bsp_header, level_name, k, st, level_data) ==
  LET trees == bsp_header.trees
      call(fn, suffix, arg) ==
        [fn |-> fn, name |-> TreeName(dgo_name, st.i, suffix), index |-> st.i,
         tex_remap |-> bsp_header.texture_remap_table, arg |-> arg]
      next(c, got) ==
        DispatchTrees(db, dgo_name, hacks, extract_collision, bsp_header, level_name,
                      k + 1, [i |-> st.i + 1, got_collide |-> got],
                      [level_data EXCEPT !.extracted = Append(@, c)])
  IN  IF k > Len(trees) THEN [fatal |-> "", level_data |-> level_data]
      ELSE IF trees[k].my_type \in tfrag_trees
        THEN next(call("extract_tfrag", <<>>,
                       <<k, ExpectedMissingTextures(hacks, level_name), level_name,
                         AtestDisableFlag(db.version, bsp_header)>>),
                  st.got_collide)
      ELSE IF trees[k].my_type = "drawable-tree-instance-tie"
        THEN next(call("extract_tie", <<"-","t","i","e">>, <<k>>), st.got_collide)
      ELSE IF trees[k].my_type = "drawable-tree-instance-shrub"
        THEN next(call("extract_shrub", <<"-","s","h","r","u","b">>, <<k>>), st.got_collide)
      ELSE IF IsCollideBranch(trees[k].my_type, extract_collision)
        THEN IF CollideGate(st.got_collide) # ""
               THEN [fatal |-> CollideGate(st.got_collide), level_data |-> level_data]
               ELSE next(call("extract_collide_frags", <<"-","c","o","l","l","i","d","e">>,
                              <<k, AllTies(trees)>>),
                         TRUE)
      ELSE DispatchTrees(db, dgo_name, hacks, extract_collision, bsp_header, level_name,
                         k + 1, Unsupported(st), level_data)

\* The result of one call: fatal is "" when the call returns, "assert" when an
\* ASSERT fails and "throw" when .at() throws; found, validated and decoded
\* tell how far the call came; tex_remap is the returned table.
BspResult(fatal, found, validated, decoded, tex_remap, level_data) ==
  [fatal |-> fatal, found |-> found, validated |-> validated,
   decoded |-> decoded, tex_remap |-> tex_remap, level_data |-> level_data]

\* variant of SkipMissingRoot: a missing root is treated as a failed assertion
SkipMissingRoot_Fatal(level_data) ==
  BspResult("assert", FALSE, FALSE, FALSE, <<>>, level_data)

\* lines 134-137: the warning and "return {}"
SkipMissingRoot(level_data) ==
  BspResult("", FALSE, FALSE, FALSE, <<>>, level_data)

\* variant of ValidationGate: the result of is_valid_bsp is not asserted
ValidationGate_Unchecked(valid) ==
  IF valid.thrown THEN "throw" ELSE ""

\* lines 142-143: ASSERT(ok) on the result of is_valid_bsp
ValidationGate(valid) ==
  IF valid.thrown THEN "throw"
  ELSE IF ~valid.ok THEN "assert"
  ELSE ""

extract_bsp_from_level(db, tex_db, dgo_name, hacks, extract_collision, level_data) ==
  IF ~HasKey(db.obj_files_by_dgo, dgo_name)
    THEN BspResult("throw", FALSE, FALSE, FALSE, <<>>, level_data)
  ELSE
  LET bsp_rec == get_bsp_file(db.obj_files_by_dgo[dgo_name], dgo_name)
  IN
  IF bsp_rec.assert THEN BspResult("assert", FALSE, FALSE, FALSE, <<>>, level_data)
  ELSE IF bsp_rec.result = <<>> THEN SkipMissingRoot(level_data)
  ELSE
  LET level_name == StripLast4(bsp_rec.result[1].name)
      bsp_file == bsp_rec.result[1].linked_data
      gate == ValidationGate(is_valid_bsp(bsp_file))
      bsp_header == bsp_file.bsp
  IN
  IF gate # "" THEN BspResult(gate, TRUE, TRUE, FALSE, <<>>, level_data)
  ELSE IF Len(bsp_header.trees) # bsp_header.length
    THEN BspResult("assert", TRUE, TRUE, TRUE, <<>>, level_data)
  ELSE
  LET out == DispatchTrees(db, dgo_name, hacks, extract_collision, bsp_header, level_name,
                           1, [i |-> 0, got_collide |-> FALSE], level_data)
  IN
  IF out.fatal # "" THEN BspResult(out.fatal, TRUE, TRUE, TRUE, <<>>, out.level_data)
  ELSE BspResult("", TRUE, TRUE, TRUE, bsp_header.texture_remap_table,
                 [out.level_data EXCEPT !.level_name = level_name])

(***************************************************************************)
(* The packagers.  Serializer and compression::compress_zstd are external; *)
(* each is a deterministic function of its input, kept injective here by   *)
(* tagging the input.                                                      *)
(***************************************************************************)
Serialize(level) ==
  <<"fr3", level>>

compress_zstd(bytes) ==
  <<"zstd", bytes>>

\* fmt::format("{}.fr3", dgo_name.substr(0, dgo_name.length() - 4)), lines 254 and 308
OutputName(dgo_name) ==
  StripLast4(dgo_name) \o Ext_fr3

SNO_DGO == <<"S","N","O",".","D","G","O">>
MIS_DGO == <<"M","I","S",".","D","G","O">>

\* variant of DgoIsInput: the presence check is missing
DgoIsInput_Always(db, dgo_name) ==
  TRUE

\* the guard of lines 228 and 271
DgoIsInput(db, dgo_name) ==
  HasKey(db.obj_files_by_dgo, dgo_name)

\* variant of PoolIsEmpty: the empty-pool check is missing
PoolIsEmpty_Never(tex_db) ==
  FALSE

\* the guard of line 233
PoolIsEmpty(tex_db) ==
  DOMAIN tex_db.textures = {}

\* A failed ASSERT aborts the process, and so does an exception that leaves
\* the call (nothing in this file catches one).
AbortsProcess(outcome) ==
  outcome = "fatal"

\* What one call of a packager did before its first file write: steps are the
\* calls it made, in order; outcome is "skip" (a warn-and-return), "fatal"
\* (an ASSERT failed or an exception left the call), "borrowed" (the return
\* of line 288 or 296) or "write" (the call reached write_binary_file).
Packaged(outcome, warning, steps, bsp, level_data) ==
  [outcome |-> outcome, warning |-> warning, steps |-> steps, bsp |-> bsp,
   level_data |-> level_data]

\* lines 244-247 and 299-302: the buffer `compressed` of a call that reached them
Compressed(pk) ==
  compress_zstd(Serialize(pk.level_data))

\* no call of extract_bsp_from_level was made
NoBsp ==
  BspResult("", FALSE, FALSE, FALSE, <<>>, EmptyLevel)

\* lines 284-289 and 292-297: extraction from the archive local_dgo_name into
\* the same level record, followed by return
BorrowFrom(db, tex_db, local_dgo_name, label, hacks, extract_collision, steps, bsp, level_data) ==
  LET b == extract_bsp_from_level(db, tex_db, local_dgo_name, hacks,
                                  extract_collision, level_data)
      a == extract_art_groups_from_level(db, tex_db, b.tex_remap, local_dgo_name,
                                         b.level_data)
      s == steps \o <<label>>
  IN  IF b.fatal # "" THEN Packaged("fatal", "", s, bsp, b.level_data)
      ELSE IF a.fatal # "" THEN Packaged("fatal", "", s, bsp, a.level_data)
      ELSE Packaged("borrowed", "jak2 mode", s, bsp, a.level_data)

\* variant of BorrowGuard: the branch is taken when the other archive is in the input
BorrowGuard_LocalPresent(db, dgo_name, local_dgo_name) ==
  dgo_name # local_dgo_name /\ HasKey(db.obj_files_by_dgo, local_dgo_name)

\* the conditions of lines 284 and 292
BorrowGuard(db, dgo_name, local_dgo_name) ==
  dgo_name # local_dgo_name /\ ~HasKey(db.obj_files_by_dgo, dgo_name)

\* extract_from_level, lines 271-306: everything before the first file write
PackageLevel(db, tex_db, dgo_name, hacks, extract_collision) ==
  IF ~DgoIsInput(db, dgo_name)
    THEN Packaged("skip", "not part of the input", <<>>, NoBsp, EmptyLevel)
  ELSE
  LET t == add_all_textures_from_level(EmptyLevel, dgo_name, tex_db)
      s1 == <<"add_all_textures_from_level">>
  IN
  IF t.fatal # "" THEN Packaged("fatal", "", s1, NoBsp, t.lev)
  ELSE
  LET bsp == extract_bsp_from_level(db, tex_db, dgo_name, hacks, extract_collision, t.lev)
      s2 == s1 \o <<"extract_bsp_from_level">>
  IN
  IF bsp.fatal # "" THEN Packaged("fatal", "", s2, bsp, bsp.level_data)
  ELSE
  LET ag == extract_art_groups_from_level(db, tex_db, bsp.tex_remap, dgo_name,
                                          bsp.level_data)
      s3 == s2 \o <<"extract_art_groups_from_level">>
  IN
  IF ag.fatal # "" THEN Packaged("fatal", "", s3, bsp, ag.level_data)
  ELSE IF BorrowGuard(db, dgo_name, SNO_DGO)
    THEN BorrowFrom(db, tex_db, SNO_DGO, "borrow SNO.DGO", hacks, extract_collision, s3, bsp,
                    ag.level_data)
  ELSE IF BorrowGuard(db, dgo_name, MIS_DGO)
    THEN BorrowFrom(db, tex_db, MIS_DGO, "borrow MIS.DGO", hacks, extract_collision, s3, bsp,
                    ag.level_data)
  ELSE Packaged("write", "", s3 \o <<"serialize", "compress_zstd">>, bsp, ag.level_data)

\* extract_common, lines 228-252: everything before the file write; order is
\* the order in which confirm_textures_identical meets the textures
PackageCommon(db, tex_db, dgo_name, order) ==
  IF ~DgoIsInput(db, dgo_name)
    THEN Packaged("skip", "not part of the input", <<>>, NoBsp, EmptyLevel)
  ELSE IF PoolIsEmpty(tex_db)
    THEN Packaged("skip", "no textures in the input", <<>>, NoBsp, EmptyLevel)
  ELSE
  LET s1 == <<"confirm_textures_identical">>
      c == confirm_textures_identical(tex_db, order)
  IN
  IF c # "" THEN Packaged("fatal", "", s1, NoBsp, EmptyLevel)
  ELSE
  LET t == add_all_textures_from_level(EmptyLevel, dgo_name, tex_db)
      s2 == s1 \o <<"add_all_textures_from_level">>
  IN
  IF t.fatal # "" THEN Packaged("fatal", "", s2, NoBsp, t.lev)
  ELSE
  LET ag == extract_art_groups_from_level(db, tex_db, <<>>, dgo_name, t.lev)
      s3 == s2 \o <<"extract_art_groups_from_level">>
  IN
  IF ag.fatal # "" THEN Packaged("fatal", "", s3, NoBsp, ag.level_data)
  ELSE Packaged("write", "", s3 \o <<"serialize", "compress_zstd">>, NoBsp, ag.level_data)

\* the names of the writes of lines 311-459, in order
RepeatedWritesA ==
  <<
    <<"A","T","E",".","f","r","3">>, <<"A","T","O",".","f","r","3">>,
    <<"C","A","B",".","f","r","3">>, <<"C","A","P",".","f","r","3">>,
    <<"C","A","S",".","f","r","3">>, <<"C","A","S","C","I","T","Y",".","f","r","3">>,
    <<"C","A","S","E","X","T",".","f","r","3">>, <<"C","F","A",".","f","r","3">>,
    <<"C","F","B",".","f","r","3">>, <<"C","G","A",".","f","r","3">>,
    <<"C","G","B",".","f","r","3">>, <<"C","G","C",".","f","r","3">>,
    <<"C","I","A",".","f","r","3">>, <<"C","I","B",".","f","r","3">>,
    <<"C","M","A",".","f","r","3">>, <<"C","M","B",".","f","r","3">>,
    <<"C","O","A",".","f","r","3">>, <<"C","O","B",".","f","r","3">>,
    <<"C","P","A",".","f","r","3">>, <<"C","P","O",".","f","r","3">>,
    <<"C","T","A",".","f","r","3">>, <<"C","T","B",".","f","r","3">>,
    <<"C","T","C",".","f","r","3">>, <<"C","T","Y","A","S","H","A",".","f","r","3">>,
    <<"C","T","Y","K","O","R","A",".","f","r","3">>, <<"C","W","I",".","f","r","3">>,
    <<"D","3","A",".","f","r","3">>, <<"D","3","B",".","f","r","3">>,
    <<"D","E","M","O",".","f","r","3">>, <<"D","G","1",".","f","r","3">>,
    <<"D","M","I",".","f","r","3">>, <<"D","R","B",".","f","r","3">>,
    <<"D","R","I",".","f","r","3">>, <<"D","R","I","L","L","M","T","N",".","f","r","3">>,
    <<"F","D","A",".","f","r","3">>, <<"F","D","B",".","f","r","3">>,
    <<"F","E","A",".","f","r","3">>, <<"F","E","B",".","f","r","3">>,
    <<"F","O","B",".","f","r","3">>, <<"F","O","R",".","f","r","3">>,
    <<"F","O","R","D","U","M","P","C",".","f","r","3">>,
    <<"F","O","R","D","U","M","P","D",".","f","r","3">>, <<"F","R","A",".","f","r","3">>,
    <<"F","R","B",".","f","r","3">>, <<"G","A","M","E",".","f","r","3">>,
    <<"G","A","R","A","G","E",".","f","r","3">>, <<"G","G","A",".","f","r","3">>,
    <<"H","A","L","F","P","I","P","E",".","f","r","3">>,
    <<"H","I","D","E","O","U","T",".","f","r","3">>,
    <<"H","I","P","H","O","G",".","f","r","3">>,
    <<"I","N","T","R","O","C","S","T",".","f","r","3">>,
    <<"K","I","O","S","K",".","f","r","3">>, <<"L","A","S","H","G","R","D",".","f","r","3">>,
    <<"L","A","S","H","T","H","R","N",".","f","r","3">>,
    <<"L","B","B","U","S","H",".","f","r","3">>,
    <<"L","B","O","M","B","B","O","T",".","f","r","3">>,
    <<"L","B","R","N","E","R","M","K",".","f","r","3">>,
    <<"L","C","G","U","A","R","D",".","f","r","3">>,
    <<"L","C","I","T","Y","L","O","W",".","f","r","3">>,
    <<"L","D","J","A","K","B","R","N",".","f","r","3">>,
    <<"L","E","R","L","C","H","A","L",".","f","r","3">>,
    <<"L","E","R","L","T","E","S","S",".","f","r","3">>,
    <<"L","E","R","R","O","L",".","f","r","3">>,
    <<"L","G","A","R","C","S","T","A",".","f","r","3">>,
    <<"L","G","U","A","R","D",".","f","r","3">>,
    <<"L","H","E","L","L","D","O","G",".","f","r","3">>,
    <<"L","H","I","P","O","U","T",".","f","r","3">>,
    <<"L","I","N","T","C","S","T","B",".","f","r","3">>,
    <<"L","J","A","K","D","A","X",".","f","r","3">>,
    <<"L","J","K","D","X","A","S","H",".","f","r","3">>,
    <<"L","K","E","I","R","I","F","T",".","f","r","3">>,
    <<"L","K","I","D","D","O","G","E",".","f","r","3">>,
    <<"L","M","E","E","T","B","R","T",".","f","r","3">>,
    <<"L","O","U","T","C","S","T","B",".","f","r","3">>,
    <<"L","P","A","C","K","A","G","E",".","f","r","3">>,
    <<"L","P","O","R","T","R","U","N",".","f","r","3">>,
    <<"L","P","O","W","E","R",".","f","r","3">>,
    <<"L","P","R","O","T","E","C","T",".","f","r","3">>,
    <<"L","P","R","S","N","C","S","T",".","f","r","3">>,
    <<"L","P","R","T","R","A","C","E",".","f","r","3">>,
    <<"L","R","A","C","E","B","B",".","f","r","3">>,
    <<"L","R","A","C","E","B","F",".","f","r","3">>,
    <<"L","R","A","C","E","C","B",".","f","r","3">>,
    <<"L","R","A","C","E","C","F",".","f","r","3">>,
    <<"L","R","A","C","E","D","B",".","f","r","3">>,
    <<"L","R","A","C","E","D","F",".","f","r","3">>,
    <<"L","R","A","C","E","L","I","T",".","f","r","3">>,
    <<"L","S","A","C","K",".","f","r","3">>,
    <<"L","S","A","M","E","R","G","D",".","f","r","3">>,
    <<"L","S","H","U","T","T","L","E",".","f","r","3">>,
    <<"L","S","M","Y","S","B","R","T",".","f","r","3">>,
    <<"L","T","E","N","T","O","B",".","f","r","3">>,
    <<"L","T","E","N","T","O","U","T",".","f","r","3">>,
    <<"L","T","E","S","S",".","f","r","3">>,
    <<"L","T","H","R","N","O","U","T",".","f","r","3">>,
    <<"L","T","R","N","K","R","K","D",".","f","r","3">>,
    <<"L","T","R","N","T","E","S","S",".","f","r","3">>,
    <<"L","T","R","N","Y","S","A","M",".","f","r","3">>,
    <<"L","W","H","A","C","K",".","f","r","3">>, <<"L","W","I","D","E","A",".","f","r","3">>,
    <<"L","W","I","D","E","B",".","f","r","3">>, <<"L","W","I","D","E","C",".","f","r","3">>,
    <<"L","W","I","D","E","S","T","A",".","f","r","3">>,
    <<"L","Y","S","A","M","S","A","M",".","f","r","3">>,
    <<"L","Y","S","K","D","C","D",".","f","r","3">>, <<"M","C","N",".","f","r","3">>,
    <<"M","T","N",".","f","r","3">>, <<"M","T","X",".","f","r","3">>,
    <<"N","E","B",".","f","r","3">>, <<"N","E","S",".","f","r","3">>,
    <<"N","E","S","T","T",".","f","r","3">>,
    <<"O","N","I","N","T","E","N","T",".","f","r","3">>,
    <<"O","R","A","C","L","E",".","f","r","3">>,
    <<"O","U","T","R","O","C","S","T",".","f","r","3">>, <<"P","A","C",".","f","r","3">>,
    <<"P","A","E",".","f","r","3">>, <<"P","A","L","B","O","S","S",".","f","r","3">>,
    <<"P","A","L","O","U","T",".","f","r","3">>, <<"P","A","R",".","f","r","3">>,
    <<"P","A","S",".","f","r","3">>, <<"P","O","R","T","W","A","L","L",".","f","r","3">>,
    <<"P","R","I",".","f","r","3">>, <<"R","U","I",".","f","r","3">>,
    <<"S","A","G",".","f","r","3">>, <<"S","E","B",".","f","r","3">>,
    <<"S","E","W",".","f","r","3">>, <<"S","K","A",".","f","r","3">>,
    <<"S","T","A",".","f","r","3">>, <<"S","T","A","D","B","L","M","P",".","f","r","3">>,
    <<"S","T","B",".","f","r","3">>, <<"S","T","C",".","f","r","3">>,
    <<"S","T","D",".","f","r","3">>, <<"S","T","R",".","f","r","3">>,
    <<"S","W","B",".","f","r","3">>, <<"S","W","E",".","f","r","3">>,
    <<"T","B","O",".","f","r","3">>, <<"T","H","R",".","f","r","3">>,
    <<"T","I","T","L","E",".","f","r","3">>, <<"T","O","A",".","f","r","3">>,
    <<"T","O","B",".","f","r","3">>, <<"T","O","C",".","f","r","3">>,
    <<"T","O","D",".","f","r","3">>, <<"T","O","E",".","f","r","3">>,
    <<"T","O","M","B","E","X","T",".","f","r","3">>, <<"T","S","Z",".","f","r","3">>,
    <<"U","N","B",".","f","r","3">>, <<"U","N","D",".","f","r","3">>,
    <<"V","I","1",".","f","r","3">>, <<"V","I","N",".","f","r","3">>
  >>

\* the names of the writes of lines 462-486, in order
RepeatedWritesB ==
  <<
    <<"B","E","A",".","f","r","3">>, <<"C","I","T",".","f","r","3">>,
    <<"D","A","R",".","f","r","3">>, <<"D","E","M",".","f","r","3">>,
    <<"F","I","C",".","f","r","3">>, <<"F","I","N",".","f","r","3">>,
    <<"I","N","T",".","f","r","3">>, <<"J","U","B",".","f","r","3">>,
    <<"J","U","N",".","f","r","3">>, <<"L","A","V",".","f","r","3">>,
    <<"M","A","I",".","f","r","3">>, <<"M","I","S",".","f","r","3">>,
    <<"O","G","R",".","f","r","3">>, <<"R","O","B",".","f","r","3">>,
    <<"R","O","L",".","f","r","3">>, <<"S","N","O",".","f","r","3">>,
    <<"S","U","B",".","f","r","3">>, <<"S","U","N",".","f","r","3">>,
    <<"S","W","A",".","f","r","3">>, <<"T","I","T",".","f","r","3">>,
    <<"T","R","A",".","f","r","3">>, <<"T","S","Z",".","f","r","3">>,
    <<"V","I","1",".","f","r","3">>, <<"V","I","2",".","f","r","3">>,
    <<"V","I","3",".","f","r","3">>
  >>

(***************************************************************************)
(* Inputs of the model: a small archive database, three texture pools,     *)
(* the level-name lists up to MaxLevels and two settings of the options.   *)
(***************************************************************************)
GAME_CGO == <<"G","A","M","E",".","C","G","O">>
BAD_DGO == <<"B","A","D",".","D","G","O">>
NOR_DGO == <<"N","O","R",".","D","G","O">>

Tree(type) ==
  [my_type |-> type]

LinkedData(segments, kind, symbol_name, trees) ==
  [segments |-> segments,
   words_by_seg |-> <<<<[kind |-> kind, symbol_name |-> symbol_name]>>>>,
   bsp |-> [trees |-> trees, length |-> Len(trees),
            texture_remap_table |-> <<<<7, 1>>>>, texture_flags |-> <<1>>]]

Record(name, linked_data) ==
  [name |-> name, linked_data |-> linked_data]

ArtGroup(name) ==
  Record(name, LinkedData(1, "TYPE_PTR", "art-group", <<>>))

AllArchives ==
  (GAME_CGO :> <<ArtGroup(<<"e","i","c","h","a","r","-","a","g">>)>>)
  @@
  (MIS_DGO :> <<Record(<<"m","i","s","t","y","-","v","i","s">>,
                       LinkedData(1, "TYPE_PTR", "bsp-header",
                                  <<Tree("drawable-tree-tfrag"),
                                    Tree("drawable-tree-instance-tie"),
                                    Tree("drawable-tree-actor"),
                                    Tree("drawable-tree-collide-fragment")>>)),
                ArtGroup(<<"r","a","c","e","r","-","a","g">>)>>)
  @@
  (BAD_DGO :> <<Record(<<"b","a","d","-","v","i","s">>,
                       LinkedData(2, "TYPE_PTR", "bsp-header", <<>>))>>)
  @@
  (NOR_DGO :> <<ArtGroup(<<"o","r","b","-","a","g">>)>>)

\* the archive databases: all archives, or without the common archive, a
\* level archive or both
Databases ==
  {[obj_files_by_dgo |-> [n \in DOMAIN AllArchives \ absent |-> AllArchives[n]],
    version |-> version] :
     absent \in SUBSET {GAME_CGO, MIS_DGO}, version \in {"Jak1"}}

Texture(page, name, rgba_bytes) ==
  [page |-> page, name |-> name, w |-> 2, h |-> 1, rgba_bytes |-> rgba_bytes]

NoMap ==
  [n \in {} |-> <<>>]

EmptyPool ==
  [textures |-> NoMap, texture_ids_per_level |-> NoMap, tpage_names |-> NoMap]

\* two textures with distinct keys
GoodPool ==
  [textures |-> (1 :> Texture(1, <<"a">>, <<10, 11>>)) @@ (2 :> Texture(1, <<"b">>, <<20>>)),
   texture_ids_per_level |-> (MIS_DGO :> {1, 2}) @@ (GAME_CGO :> {2}),
   tpage_names |-> (1 :> <<"p">>)]

\* two textures whose keys are both "pab" and whose bytes differ
ClashPool ==
  [textures |-> (1 :> Texture(1, <<"a","b">>, <<10>>)) @@ (2 :> Texture(2, <<"b">>, <<20>>)),
   texture_ids_per_level |-> (MIS_DGO :> {1}) @@ (GAME_CGO :> {2}),
   tpage_names |-> (1 :> <<"p">>) @@ (2 :> <<"p","a">>)]

TexturePools ==
  {EmptyPool, GoodPool, ClashPool}

LevelNames ==
  {MIS_DGO, BAD_DGO, NOR_DGO}

LevelLists ==
  UNION {[1..n -> LevelNames] : n \in 0..MaxLevels}

NoHacks ==
  [missing_textures_by_level |-> NoMap]

\* [debug_dump_level, extract_collision]
Options ==
  {<<FALSE, FALSE>>, <<TRUE, TRUE>>}

(***************************************************************************)
(* State of one run of extract_all_levels.                                 *)
(***************************************************************************)
VARIABLES
  db,                \* the archive database (read-only)
  tex_db,            \* the shared texture pool (read-only)
  dgo_names,         \* the level-name list
  common_name,       \* the name of the common archive
  hacks,             \* the per-level override table
  debug_dump_level,  \* the debug-export option
  extract_collision, \* the collision-extraction option
  stmt,              \* the statement of extract_all_levels the driver is at
  common,            \* the extract_common call: [pc, pk, written]
  tasks,             \* the tasks of the thread group: idx -> [pc, dgo_name, runs, pk, written]
  files,             \* the output folder: file name -> the call whose buffer it holds
  glb_out,           \* the debug-output folder: file name -> <<export, call>>
  aborted,           \* <<>>, or <<who>> once the process has aborted
  unit_call,         \* a single call of one function: [fn, its arguments]
  unit_ret           \* the outcome of that call: [returned, value]

inputs == <<db, tex_db, dgo_names, common_name, hacks, debug_dump_level, extract_collision>>

\* the variables of the single calls
unit == <<unit_call, unit_ret>>

vars == <<db, tex_db, dgo_names, common_name, hacks, debug_dump_level, extract_collision,
          stmt, common, tasks, files, glb_out, aborted, unit_call, unit_ret>>

\* no single call is made in a run of extract_all_levels
NoCall ==
  [fn |-> "none"]

NotReturned ==
  [returned |-> FALSE]

ReturnedValue(value) ==
  [returned |-> TRUE, value |-> value]

NotRun ==
  Packaged("none", "", <<>>, NoBsp, EmptyLevel)

Init ==
  /\ db \in Databases
  /\ tex_db \in TexturePools
  /\ dgo_names \in LevelLists
  /\ common_name = GAME_CGO
  /\ hacks = NoHacks
  /\ \E o \in Options : debug_dump_level = o[1] /\ extract_collision = o[2]
  /\ stmt = 1
  /\ common = [pc |-> "idle", pk |-> NotRun, written |-> {}]
  /\ tasks = <<>>
  /\ files = NoMap
  /\ glb_out = NoMap
  /\ aborted = <<>>
  /\ unit_call = NoCall
  /\ unit_ret = NotReturned

\* variant of DriverProgram: the thread group is started before the common pass
DriverProgram_RunFirst ==
  <<"threads.run", "extract_common", "threads.join">>

\* variant of DriverProgram: the join is missing
DriverProgram_NoJoin ==
  <<"extract_common", "threads.run">>

\* the body of extract_all_levels, lines 509-517
DriverProgram ==
  <<"extract_common", "threads.run", "threads.join">>

AtStatement(s) ==
  /\ aborted = <<>>
  /\ stmt \in DOMAIN DriverProgram
  /\ DriverProgram[stmt] = s

\* file_util::write_binary_file: a file holds exactly what the last write to
\* it wrote.  A call writes nothing but its own buffer `compressed`, which it
\* never changes, so a file is recorded by the call that wrote it last: 0 for
\* extract_common, idx for the extract_from_level call of task idx.
WriteAll(fs, names, writer) ==
  [n \in DOMAIN fs \cup names |-> IF n \in names THEN writer ELSE fs[n]]

Range(seq) ==
  {seq[k] : k \in DOMAIN seq}

(***************************************************************************)
(* The common pass, on the calling thread.                                 *)
(***************************************************************************)
\* lines 228-252
CommonPackage ==
  /\ AtStatement("extract_common")
  /\ common.pc = "idle"
  /\ \E order \in IterationOrders(DOMAIN tex_db.textures) :
       LET pk == PackageCommon(db, tex_db, common_name, order)
       IN  /\ common' = [common EXCEPT !.pk = pk,
                                       !.pc = CASE pk.outcome = "write" -> "write"
                                                [] pk.outcome = "fatal" -> "fatal"
                                                [] OTHER -> "done"]
           /\ aborted' = IF AbortsProcess(pk.outcome) THEN <<0>> ELSE aborted
  /\ UNCHANGED <<inputs, unit, stmt, tasks, files, glb_out>>

\* lines 253-255
CommonWrite ==
  /\ AtStatement("extract_common")
  /\ common.pc = "write"
  /\ files' = WriteAll(files, {OutputName(common_name)}, 0)
  /\ common' = [common EXCEPT !.written = @ \cup {OutputName(common_name)},
                              !.pc = IF debug_dump_level THEN "dump" ELSE "done"]
  /\ UNCHANGED <<inputs, unit, stmt, tasks, glb_out, aborted>>

\* lines 257-261
CommonDump ==
  /\ AtStatement("extract_common")
  /\ common.pc = "dump"
  /\ glb_out' = WriteAll(glb_out, {<<"c","o","m","m","o","n",".","g","l","b">>},
                         <<"foreground", 0>>)
  /\ common' = [common EXCEPT !.pc = "done"]
  /\ UNCHANGED <<inputs, unit, stmt, tasks, files, aborted>>

\* extract_common has returned
CommonReturn ==
  /\ AtStatement("extract_common")
  /\ common.pc = "done"
  /\ stmt' = stmt + 1
  /\ common' = [common EXCEPT !.pc = "returned"]
  /\ UNCHANGED <<inputs, unit, tasks, files, glb_out, aborted>>

(***************************************************************************)
(* The thread group.  SimpleThreadGroup is not part of this file: run(f,n) *)
(* queues the n calls f(0) .. f(n-1) for a bounded pool of workers, and    *)
(* join() returns once every call has returned.  Task idx of the model is  *)
(* the call f(idx - 1).                                                    *)
(***************************************************************************)
\* variant of NumRuns: the last position is left out
NumRuns_OneShort(names) ==
  Len(names) - 1

\* the second argument of threads.run, line 516
NumRuns(names) ==
  Len(names)

\* the level a task packages, dgo_names[idx] of line 513
TaskArgument(names, idx) ==
  names[idx]

QueuedTask ==
  [pc |-> "queued", dgo_name |-> <<>>, runs |-> 0, pk |-> NotRun, written |-> {}]

SimpleThreadGroup_run(n) ==
  [idx \in 1..n |-> QueuedTask]

WorkerIsFree ==
  Cardinality({idx \in DOMAIN tasks : tasks[idx].pc \notin {"queued", "done"}}) < MaxWorkers

SimpleThreadGroup_joined ==
  \A idx \in DOMAIN tasks : tasks[idx].pc = "done"

\* lines 510-516
ThreadsRun ==
  /\ AtStatement("threads.run")
  /\ tasks' = SimpleThreadGroup_run(NumRuns(dgo_names))
  /\ stmt' = stmt + 1
  /\ UNCHANGED <<inputs, unit, common, files, glb_out, aborted>>

\* line 517
ThreadsJoin ==
  /\ AtStatement("threads.join")
  /\ SimpleThreadGroup_joined
  /\ stmt' = stmt + 1
  /\ UNCHANGED <<inputs, unit, common, tasks, files, glb_out, aborted>>

Returned ==
  stmt = Len(DriverProgram) + 1

(***************************************************************************)
(* One level task: the lambda of lines 512-515, extract_from_level.        *)
(***************************************************************************)
\* the call of lines 513-514 and lines 271-306 of extract_from_level
TaskPackage(idx) ==
  /\ aborted = <<>>
  /\ tasks[idx].pc = "queued"
  /\ WorkerIsFree
  /\ LET name == TaskArgument(dgo_names, idx)
         pk == PackageLevel(db, tex_db, name, hacks, extract_collision)
     IN  /\ tasks' = [tasks EXCEPT ![idx] =
                        [@ EXCEPT !.dgo_name = name,
                                  !.runs = @ + 1,
                                  !.pk = pk,
                                  !.pc = CASE pk.outcome = "write" -> "write"
                                           [] pk.outcome = "fatal" -> "fatal"
                                           [] OTHER -> "done"]]
         /\ aborted' = IF AbortsProcess(pk.outcome) THEN <<idx>> ELSE aborted
  /\ UNCHANGED <<inputs, unit, stmt, common, files, glb_out>>

\* the files the writes of lines 311-459 leave behind
RepeatedNamesA ==
  Range(RepeatedWritesA)

\* the files the writes of lines 462-486 leave behind
RepeatedNamesB ==
  Range(RepeatedWritesB)

\* the bytes of a file of the output folder
FileContent(name) ==
  IF files[name] = 0 THEN Compressed(common.pk) ELSE Compressed(tasks[files[name]].pk)

\* the writes a task makes at one pc, and the pc that follows
TaskWrites(idx, pc, names, next) ==
  /\ aborted = <<>>
  /\ tasks[idx].pc = pc
  /\ files' = WriteAll(files, names, idx)
  /\ tasks' = [tasks EXCEPT ![idx] = [@ EXCEPT !.written = @ \cup names, !.pc = next]]
  /\ UNCHANGED <<inputs, unit, stmt, common, glb_out, aborted>>

\* lines 307-309
TaskWrite(idx) ==
  TaskWrites(idx, "write", {OutputName(tasks[idx].dgo_name)}, "repeat_a")

\* lines 311-459
TaskRepeatedWritesA(idx) ==
  TaskWrites(idx, "repeat_a", RepeatedNamesA, "repeat_b")

\* lines 462-486
TaskRepeatedWritesB(idx) ==
  TaskWrites(idx, "repeat_b", RepeatedNamesB,
             IF debug_dump_level THEN "dump" ELSE "done")

\* lines 489-498
TaskDump(idx) ==
  /\ aborted = <<>>
  /\ tasks[idx].pc = "dump"
  /\ LET level_data == tasks[idx].pk.level_data
         back == level_data.level_name
                   \o <<"_","b","a","c","k","g","r","o","u","n","d",".","g","l","b">>
         fore == level_data.level_name
                   \o <<"_","f","o","r","e","g","r","o","u","n","d",".","g","l","b">>
     IN  glb_out' = WriteAll(WriteAll(glb_out, {back}, <<"background", idx>>),
                             {fore}, <<"foreground", idx>>)
  /\ tasks' = [tasks EXCEPT ![idx] = [@ EXCEPT !.pc = "done"]]
  /\ UNCHANGED <<inputs, unit, stmt, common, files, aborted>>

\* the steps of the level tasks, for any task of the thread group
Package ==
  \E idx \in DOMAIN tasks : TaskPackage(idx)
Write ==
  \E idx \in DOMAIN tasks : TaskWrite(idx)
RepeatedWritesFirst ==
  \E idx \in DOMAIN tasks : TaskRepeatedWritesA(idx)
RepeatedWritesSecond ==
  \E idx \in DOMAIN tasks : TaskRepeatedWritesB(idx)
Dump ==
  \E idx \in DOMAIN tasks : TaskDump(idx)

Next ==
  \/ CommonPackage
  \/ CommonWrite
  \/ CommonDump
  \/ CommonReturn
  \/ ThreadsRun
  \/ ThreadsJoin
  \/ Package
  \/ Write
  \/ RepeatedWritesFirst
  \/ RepeatedWritesSecond
  \/ Dump

Spec == Init /\ [][Next]_vars

\* The runs with textures in the pool, the common archive in the input and
\* the debug export switched on, in which every thread that can take a step
\* eventually takes one.
FairInit ==
  /\ Init
  /\ tex_db = GoodPool
  /\ DgoIsInput(db, common_name)
  /\ debug_dump_level

FairSpec == FairInit /\ [][Next]_vars /\ WF_vars(Next)

(***************************************************************************)
(* Single calls.  Each function of the file that the program calls with    *)
(* more kinds of arguments than the archives above provide is also called  *)
(* on its own: a behaviour starts with one call and its arguments, and     *)
(* its one step lets the call run to its outcome.                          *)
(***************************************************************************)
\* the longest record list of a located archive
MaxRecords == 3
\* the longest tree list of a partition root
MaxTrees == 3
\* the largest texture id of a pool
MaxTextures == 3

TST_DGO == <<"T","S","T",".","D","G","O">>
Name_tst_vis == <<"t","s","t","-","v","i","s">>
Name_tst == <<"t","s","t">>

\* record names: the bare suffix, two root names, the lower-cased archive
\* name and the same name in capitals
RecordNames ==
  {Suffix_vis,
   <<"a","-","v","i","s">>,
   <<"b","-","v","i","s">>,
   Name_tst,
   <<"T","S","T">>}

\* archive names: with each extension, with a lower-case extension, without
\* an extension, and one whose stripped form is the bare suffix
ArchiveNames ==
  {TST_DGO,
   <<"T","S","T",".","C","G","O">>,
   <<"T","S","T",".","d","g","o">>,
   <<"T","S","T">>,
   <<"-","V","I","S",".","D","G","O">>}

\* a record of the locator's list; its linked data is the handle k
RecordsNamed(names) ==
  [k \in DOMAIN names |-> Record(names[k], k)]

RecordLists ==
  {RecordsNamed(names) : names \in UNION {[1..n -> RecordNames] : n \in 0..MaxRecords}}

LocatorCalls ==
  {[fn |-> "get_bsp_file", records |-> records, dgo_name |-> dgo_name] :
     records \in RecordLists, dgo_name \in ArchiveNames}

\* linked files: any segment count, no segment table, no first word, or a
\* first word of any kind and symbol
LinkedFiles ==
  {[segments |-> segments, words_by_seg |-> words_by_seg] :
     segments \in 0..3,
     words_by_seg \in {<<>>, <<<<>>>>}
                      \cup {<<<<[kind |-> kind, symbol_name |-> symbol_name]>>>> :
                              kind \in {"TYPE_PTR", "SYM_PTR", "PLAIN_DATA"},
                              symbol_name \in {"bsp-header", "art-group"}}}

ValidatorCalls ==
  {[fn |-> "is_valid_bsp", file |-> file] : file \in LinkedFiles}

\* a texture of another level, already in the list
StaleTexture ==
  [combo_id |-> 9, w |-> 1, h |-> 1, debug_tpage_name |-> <<"q">>,
   debug_name |-> <<"q","z">>, data |-> <<99>>, load_to_pool |-> TRUE]

TextureChoices ==
  {Texture(1, <<"a">>, <<10, 11>>),
   Texture(1, <<"a","b">>, <<10>>),
   Texture(2, <<"b">>, <<20>>),
   Texture(2, <<"b">>, <<10>>)}

\* pools with the textures 1..MaxTextures, any of them registered for
\* MIS.DGO and texture 1 registered for GAME.CGO; and a pool in which an id
\* registered for MIS.DGO has no texture
Pools ==
  {[textures |-> textures,
    texture_ids_per_level |-> (MIS_DGO :> ids) @@ (GAME_CGO :> {1}),
    tpage_names |-> (1 :> <<"p">>) @@ (2 :> <<"p","a">>)] :
     textures \in [1..MaxTextures -> TextureChoices], ids \in SUBSET (1..MaxTextures)}
  \cup {[GoodPool EXCEPT !.texture_ids_per_level[MIS_DGO] = {1, 2, MaxTextures + 1}]}

TextureCalls ==
  {[fn |-> "add_all_textures_from_level", lev |-> lev, level_name |-> level_name,
    tex_db |-> pool] :
     lev \in {EmptyLevel, [EmptyLevel EXCEPT !.textures = <<StaleTexture>>]},
     level_name \in {MIS_DGO, BAD_DGO},
     pool \in Pools}

VerifyCalls ==
  {[fn |-> "confirm_textures_identical", tex_db |-> pool] :
     pool \in Pools \cup {EmptyPool}}

TreeTypes ==
  {"drawable-tree-tfrag",
   "drawable-tree-lowres-tfrag",
   "drawable-tree-instance-tie",
   "drawable-tree-instance-shrub",
   "drawable-tree-collide-fragment",
   "drawable-tree-actor"}

TreeLists ==
  {[k \in DOMAIN types |-> Tree(types[k])] :
     types \in UNION {[1..n -> TreeTypes] : n \in 0..MaxTrees}}

\* roots: a valid root with any tree list, and roots failing each check of
\* is_valid_bsp, with trees
Roots ==
  {LinkedData(1, "TYPE_PTR", "bsp-header", trees) : trees \in TreeLists}
  \cup {LinkedData(f[1], f[2], f[3], <<Tree("drawable-tree-tfrag"),
                                       Tree("drawable-tree-collide-fragment")>>) :
          f \in {<<2, "TYPE_PTR", "bsp-header">>,
                 <<1, "SYM_PTR", "bsp-header">>,
                 <<1, "TYPE_PTR", "art-group">>}}

Name_orb_ag == <<"o","r","b","-","a","g">>

\* the record lists of TST.DGO: the root under a "-vis" name, followed by an
\* art group or not; the root as the last record under the archive's name;
\* no root; two "-vis" records
RootArchives ==
  {<<Record(Name_tst_vis, root)>> : root \in Roots}
  \cup {<<Record(Name_tst_vis, root), ArtGroup(Name_orb_ag)>> : root \in Roots}
  \cup {<<ArtGroup(Name_orb_ag), Record(Name_tst, root)>> : root \in Roots}
  \cup {<<ArtGroup(Name_orb_ag)>>}
  \cup {<<Record(Name_tst_vis, root), Record(<<"b","-","v","i","s">>, root)>> : root \in Roots}

TESTB_DGO == <<"T","E","S","T","B",".","D","G","O">>
Name_testb == <<"t","e","s","t","b">>

\* the record lists of TESTB.DGO: the root as the last record under the
\* archive's name, which is longer than the suffix "-vis"
LongNameArchives ==
  {<<ArtGroup(Name_orb_ag), Record(Name_testb, root)>> : root \in Roots}

\* the archives of the single calls, each as <<archive name, record list>>
NamedArchives ==
  {<<TST_DGO, records>> : records \in RootArchives}
  \cup {<<TESTB_DGO, records>> : records \in LongNameArchives}

BspCalls ==
  {[fn |-> "extract_bsp_from_level",
    db |-> [obj_files_by_dgo |-> (archive[1] :> archive[2]), version |-> version],
    tex_db |-> GoodPool, dgo_name |-> archive[1], hacks |-> NoHacks,
    extract_collision |-> collision, level_data |-> EmptyLevel] :
     archive \in NamedArchives, version \in {"Jak1", "Jak2"},
     collision \in BOOLEAN}

\* the archives of the extract_from_level calls: the two archives the
\* borrowing branches name, and two others of the run's archives
PackagerArchives ==
  (SNO_DGO :> <<Record(<<"s","n","o","w","-","v","i","s">>,
                       LinkedData(1, "TYPE_PTR", "bsp-header",
                                  <<Tree("drawable-tree-tfrag")>>)),
                ArtGroup(<<"f","l","u","t","-","a","g">>)>>)
  @@
  [n \in {MIS_DGO, BAD_DGO, NOR_DGO} |-> AllArchives[n]]

\* extract_from_level for each of these archives and for TST.DGO, with any
\* of the archives in the database
PackagerCalls ==
  {[fn |-> "extract_from_level",
    db |-> [obj_files_by_dgo |-> [n \in present |-> PackagerArchives[n]],
            version |-> "Jak1"],
    tex_db |-> pool, dgo_name |-> name, hacks |-> NoHacks,
    extract_collision |-> collision] :
     present \in SUBSET (DOMAIN PackagerArchives),
     pool \in {EmptyPool, GoodPool},
     name \in DOMAIN PackagerArchives \cup {TST_DGO},
     collision \in BOOLEAN}

\* one call with its arguments; no run of extract_all_levels
CallInit ==
  /\ \/ unit_call \in LocatorCalls
     \/ unit_call \in ValidatorCalls
     \/ unit_call \in TextureCalls
     \/ unit_call \in VerifyCalls
     \/ unit_call \in BspCalls
     \/ unit_call \in PackagerCalls
  /\ unit_ret = NotReturned
  /\ db = [obj_files_by_dgo |-> NoMap, version |-> "Jak1"]
  /\ tex_db = EmptyPool
  /\ dgo_names = <<>>
  /\ common_name = GAME_CGO
  /\ hacks = NoHacks
  /\ debug_dump_level = FALSE
  /\ extract_collision = FALSE
  /\ stmt = 0
  /\ common = [pc |-> "idle", pk |-> NotRun, written |-> {}]
  /\ tasks = <<>>
  /\ files = NoMap
  /\ glb_out = NoMap
  /\ aborted = <<>>

Calling(fn) ==
  /\ unit_call.fn = fn
  /\ ~unit_ret.returned

Returns(value) ==
  /\ unit_ret' = ReturnedValue(value)
  /\ UNCHANGED <<inputs, unit_call, stmt, common, tasks, files, glb_out, aborted>>

LocatorCall ==
  /\ Calling("get_bsp_file")
  /\ Returns(get_bsp_file(unit_call.records, unit_call.dgo_name))

ValidatorCall ==
  /\ Calling("is_valid_bsp")
  /\ Returns(is_valid_bsp(unit_call.file))

TextureCall ==
  /\ Calling("add_all_textures_from_level")
  /\ Returns(add_all_textures_from_level(unit_call.lev, unit_call.level_name,
                                         unit_call.tex_db))

\* the unordered_map of the pool is iterated in any order
VerifyCall ==
  /\ Calling("confirm_textures_identical")
  /\ \E order \in IterationOrders(DOMAIN unit_call.tex_db.textures) :
       Returns(confirm_textures_identical(unit_call.tex_db, order))

BspCall ==
  /\ Calling("extract_bsp_from_level")
  /\ Returns(extract_bsp_from_level(unit_call.db, unit_call.tex_db, unit_call.dgo_name,
                                    unit_call.hacks, unit_call.extract_collision,
                                    unit_call.level_data))

\* extract_from_level up to its first file write
PackagerCall ==
  /\ Calling("extract_from_level")
  /\ Returns(PackageLevel(unit_call.db, unit_call.tex_db, unit_call.dgo_name,
                          unit_call.hacks, unit_call.extract_collision))

CallNext ==
  \/ LocatorCall
  \/ ValidatorCall
  \/ TextureCall
  \/ VerifyCall
  \/ BspCall
  \/ PackagerCall

CallSpec == CallInit /\ [][CallNext]_vars

\* the single call of fn has run to its outcome
Called(fn) ==
  /\ unit_call.fn = fn
  /\ unit_ret.returned

(***************************************************************************)
(* Properties.                                                             *)
(***************************************************************************)
\* threads.run has been executed
RunCalled ==
  \E s \in 1..(stmt - 1) : s \in DOMAIN DriverProgram /\ DriverProgram[s] = "threads.run"

\* the tasks that have been handed to extract_from_level
Started ==
  {idx \in DOMAIN tasks : tasks[idx].runs > 0}

TreeExtractors ==
  {"extract_tfrag", "extract_tie", "extract_shrub", "extract_collide_frags"}

\* the tree-extractor calls recorded in a level record
TreeCalls(level_data) ==
  SelectSeq(level_data.extracted, LAMBDA c : c.fn \in TreeExtractors)

\* C1: no two level tasks for different entries of dgo_names write the same
\* file of the output folder.
C1_DisjointOutputPaths ==
  \A a, b \in DOMAIN tasks :
    (a # b /\ dgo_names[a] # dgo_names[b])
      => tasks[a].written \cap tasks[b].written = {}

\* C2: a level task that has packaged its level has written exactly one file
\* of the output folder, <dgo name without its extension>.fr3.
C2_ExactlyOneArtifact ==
  \A idx \in DOMAIN tasks :
    (tasks[idx].pc = "done" /\ tasks[idx].pk.outcome = "write")
      => tasks[idx].written = {OutputName(tasks[idx].dgo_name)}

\* C3: once extract_all_levels has returned, the file <ArchiveBaseName>.fr3 of
\* every packaged archive holds the compressed serialization of the level
\* record of that archive.
C3_OwnRecordInOwnFile ==
  Returned =>
    /\ common.pk.outcome = "write"
         => /\ HasKey(files, OutputName(common_name))
            /\ FileContent(OutputName(common_name))
                 = compress_zstd(Serialize(common.pk.level_data))
    /\ \A idx \in DOMAIN tasks :
         tasks[idx].pk.outcome = "write"
           => /\ HasKey(files, OutputName(tasks[idx].dgo_name))
              /\ FileContent(OutputName(tasks[idx].dgo_name))
                   = compress_zstd(Serialize(tasks[idx].pk.level_data))

\* C4: as long as the common pass has not returned, no level task has taken a
\* step; so no step of the common pass interleaves with or follows a task step.
C4_CommonBeforeTasks ==
  common.pc # "returned" => Started = {}

\* a run in which the common pass wrote its file and a level task wrote too
C4_Witness ==
  /\ common.written # {}
  /\ \E idx \in DOMAIN tasks : tasks[idx].written # {}

\* C5: extract_all_levels has returned only if every task of the thread group
\* has finished, and once threads.run was called and every task has finished
\* it eventually returns.
C5_JoinBarrier ==
  /\ [](Returned => /\ RunCalled
                    /\ DOMAIN tasks = 1..Len(dgo_names)
                    /\ \A idx \in DOMAIN tasks : tasks[idx].pc = "done")
  /\ ((RunCalled /\ \A idx \in DOMAIN tasks : tasks[idx].pc = "done") ~> Returned)

\* the call has returned after two tasks that both wrote files
C5_Witness ==
  /\ Returned
  /\ Cardinality({idx \in DOMAIN tasks : tasks[idx].written # {}}) >= 2

\* C6: after threads.run there is one task per position of dgo_names, no task
\* is handed to extract_from_level more than once, task idx packages
\* dgo_names[idx], and at the return every task has been run.
C6_OneTaskPerPosition ==
  RunCalled =>
    /\ DOMAIN tasks = 1..Len(dgo_names)
    /\ \A idx \in DOMAIN tasks :
         /\ tasks[idx].runs <= 1
         /\ tasks[idx].runs = 1 => tasks[idx].dgo_name = dgo_names[idx]
         /\ Returned => tasks[idx].runs = 1

\* the call has returned after two tasks for two different levels
C6_Witness ==
  /\ Returned
  /\ Len(dgo_names) >= 2
  /\ dgo_names[1] # dgo_names[2]
  /\ \A idx \in DOMAIN tasks : tasks[idx].runs = 1

\* the archive has exactly one "-vis" record and its decoded data is not a
\* one-segment file whose first word is the type tag bsp-header
RootFailsValidation(name) ==
  /\ name \in DOMAIN db.obj_files_by_dgo
  /\ LET records == db.obj_files_by_dgo[name]
         vis == {k \in DOMAIN records : IsVisName(records[k].name)}
     IN  /\ Cardinality(vis) = 1
         /\ LET file == records[CHOOSE k \in vis : TRUE].linked_data
            IN  \/ file.segments # 1
                \/ file.words_by_seg[1][1].kind # "TYPE_PTR"
                \/ file.words_by_seg[1][1].symbol_name # "bsp-header"

\* C7: once a level task has met a root that fails validation, or any other
\* failed assertion of extract_bsp_from_level, the process is aborted: the
\* task is never recorded as finished and extract_all_levels never returns.
C7_FatalAbortsRun ==
  \A idx \in Started :
    (RootFailsValidation(tasks[idx].dgo_name) \/ tasks[idx].pk.bsp.fatal # "")
      => /\ aborted = <<idx>>
         /\ tasks[idx].pc = "fatal"
         /\ ~Returned

\* a task met an invalid root after another task had already written files
C7_Witness ==
  \E idx \in Started :
    /\ RootFailsValidation(tasks[idx].dgo_name)
    /\ \E other \in DOMAIN tasks : other # idx /\ tasks[other].written # {}

\* C8: a packager called with a dgo name that is not a key of obj_files_by_dgo
\* has returned without abort and has done nothing: no call, an untouched
\* level record, no serialization and no file.
C8_AbsentArchiveSkipped ==
  /\ \A idx \in Started :
       tasks[idx].dgo_name \notin DOMAIN db.obj_files_by_dgo
         => /\ tasks[idx].pc = "done"
            /\ tasks[idx].pk.outcome = "skip"
            /\ tasks[idx].pk.steps = <<>>
            /\ tasks[idx].pk.level_data = EmptyLevel
            /\ tasks[idx].written = {}
            /\ aborted # <<idx>>
  /\ (common.pc # "idle" /\ common_name \notin DOMAIN db.obj_files_by_dgo)
       => /\ common.pc \in {"done", "returned"}
          /\ common.pk.outcome = "skip"
          /\ common.pk.steps = <<>>
          /\ common.pk.level_data = EmptyLevel
          /\ common.written = {}
          /\ aborted # <<0>>

\* the call has returned after the common archive and a level archive were
\* both found absent
C8_Witness ==
  /\ Returned
  /\ common_name \notin DOMAIN db.obj_files_by_dgo
  /\ \E idx \in Started : tasks[idx].dgo_name \notin DOMAIN db.obj_files_by_dgo

\* C9 as stated: a full level of the input packaged while the pool holds no
\* texture is skipped, no extractor runs and no output file is written.
C9_EmptyPoolSkipsLevel ==
  \A idx \in Started :
    (tasks[idx].dgo_name \in DOMAIN db.obj_files_by_dgo /\ DOMAIN tex_db.textures = {})
      => /\ tasks[idx].pk.outcome = "skip"
         /\ tasks[idx].pk.level_data.extracted = <<>>
         /\ tasks[idx].written = {}

\* C9 amended: with an empty pool a full level of the input is not skipped:
\* extract_from_level populates (no) textures and calls extract_bsp_from_level
\* with no warning, and a task that finishes has written its output file; it
\* is extract_common that skips on an empty pool, with no call and no file.
C9_EmptyPoolSkipsOnlyCommon ==
  DOMAIN tex_db.textures = {} =>
    /\ \A idx \in Started :
         tasks[idx].dgo_name \in DOMAIN db.obj_files_by_dgo
           => /\ tasks[idx].pk.outcome # "skip"
              /\ tasks[idx].pk.warning = ""
              /\ Len(tasks[idx].pk.steps) >= 2
              /\ tasks[idx].pk.steps[2] = "extract_bsp_from_level"
              /\ tasks[idx].pk.level_data.textures = <<>>
              /\ tasks[idx].pc = "done"
                   => OutputName(tasks[idx].dgo_name) \in tasks[idx].written
    /\ (common.pc # "idle" /\ common_name \in DOMAIN db.obj_files_by_dgo)
         => /\ common.pk.outcome = "skip"
            /\ common.pk.steps = <<>>
            /\ common.written = {}

\* with an empty pool the common pass was skipped and a level task ran the
\* tree extractors and wrote its file
C9_Witness ==
  /\ DOMAIN tex_db.textures = {}
  /\ common_name \in DOMAIN db.obj_files_by_dgo
  /\ common.pc = "returned"
  /\ \E idx \in Started :
       /\ tasks[idx].pc = "done"
       /\ TreeCalls(tasks[idx].pk.level_data) # <<>>
       /\ OutputName(tasks[idx].dgo_name) \in tasks[idx].written

\* get_bsp_file returns no record for the archive, without a failed assertion
RootNotFound(name) ==
  /\ name \in DOMAIN db.obj_files_by_dgo
  /\ get_bsp_file(db.obj_files_by_dgo[name], name) = [assert |-> FALSE, result |-> <<>>]

\* C10: for a level whose partition root is not found, extract_bsp_from_level
\* has called neither the validator nor the decoder nor a tree extractor, has
\* returned an empty texture-remap table, and has not aborted the process.
C10_MissingRootNotFatal ==
  \A idx \in Started :
    RootNotFound(tasks[idx].dgo_name)
      => /\ tasks[idx].pk.bsp.fatal = ""
         /\ ~tasks[idx].pk.bsp.found
         /\ ~tasks[idx].pk.bsp.validated
         /\ ~tasks[idx].pk.bsp.decoded
         /\ tasks[idx].pk.bsp.tex_remap = <<>>
         /\ TreeCalls(tasks[idx].pk.level_data) = <<>>
         /\ tasks[idx].pc # "fatal"
         /\ aborted # <<idx>>

\* the call has returned after a level without a root and another level,
\* with a root, were both packaged
C10_Witness ==
  /\ Returned
  /\ \E idx, other \in Started :
       /\ RootNotFound(tasks[idx].dgo_name)
       /\ tasks[other].pk.bsp.found
       /\ tasks[other].written # {}

\* C11: for a level whose partition root is not found, extract_from_level
\* extracts no art group and writes no output artifact.
C11_MissingRootSkipsLevel ==
  \A idx \in Started :
    RootNotFound(tasks[idx].dgo_name)
      => /\ \A k \in DOMAIN tasks[idx].pk.level_data.extracted :
              tasks[idx].pk.level_data.extracted[k].fn # "extract_merc"
         /\ tasks[idx].written = {}

\* the positions of the records whose names end in "-vis"
VisPositions(records) ==
  {k \in DOMAIN records : ends_with(records[k].name, Suffix_vis)}

\* C12: for every record list holding two or more records whose names end in
\* "-vis", get_bsp_file aborts with a failed assertion and returns no record.
C12_TwoRootsAbort ==
  Called("get_bsp_file") /\ Cardinality(VisPositions(unit_call.records)) >= 2
    => unit_ret.value = [assert |-> TRUE, result |-> <<>>]

\* C13: for every record list with exactly one record whose name ends in
\* "-vis", get_bsp_file returns that record, whatever its position, the
\* archive name and the name of the last record.
C13_OneRootReturned ==
  Called("get_bsp_file") /\ Cardinality(VisPositions(unit_call.records)) = 1
    => \E k \in VisPositions(unit_call.records) :
         unit_ret.value = [assert |-> FALSE, result |-> <<unit_call.records[k]>>]

\* the positions of the records whose names are longer than the suffix and
\* end in "-vis"
LongVisPositions(records) ==
  {k \in VisPositions(records) : Len(records[k].name) > Len(Suffix_vis)}

\* C12 (amended): for every record list holding two or more records whose
\* names are longer than four characters and end in "-vis", get_bsp_file
\* aborts with a failed assertion and returns no record.
C12_TwoLongRootsAbort ==
  Called("get_bsp_file") /\ Cardinality(LongVisPositions(unit_call.records)) >= 2
    => unit_ret.value = [assert |-> TRUE, result |-> <<>>]

\* a list with two roots, and a last record the archive is named after, has aborted
C12_Witness ==
  /\ Called("get_bsp_file")
  /\ Cardinality(LongVisPositions(unit_call.records)) = 2
  /\ unit_call.records[Len(unit_call.records)].name = Name_tst
  /\ unit_call.dgo_name = TST_DGO
  /\ unit_ret.value.assert

\* C13 (amended): for every record list with exactly one record whose name is
\* longer than four characters and ends in "-vis", get_bsp_file returns that
\* record, whatever its position, the archive name and the last record's name.
C13_OneLongRootReturned ==
  Called("get_bsp_file") /\ Cardinality(LongVisPositions(unit_call.records)) = 1
    => \E k \in LongVisPositions(unit_call.records) :
         unit_ret.value = [assert |-> FALSE, result |-> <<unit_call.records[k]>>]

\* the one root is returned although it is not the last record and the
\* archive is named after the last record
C13_Witness ==
  /\ Called("get_bsp_file")
  /\ \E k \in LongVisPositions(unit_call.records) :
       /\ LongVisPositions(unit_call.records) = {k}
       /\ k < Len(unit_call.records)
       /\ unit_ret.value.result = <<unit_call.records[k]>>
  /\ unit_call.records[Len(unit_call.records)].name = Name_tst
  /\ unit_call.dgo_name = TST_DGO

\* the archive name ends in ".DGO" or ".CGO"
HasArchiveExtension(dgo_name) ==
  ends_with(dgo_name, Ext_DGO) \/ ends_with(dgo_name, Ext_CGO)

\* the extension-stripped, lower-cased archive name is the name of the last record
NamedAfterLast(records, dgo_name) ==
  /\ records # <<>>
  /\ LowerCased(SubSeq(dgo_name, 1, Len(dgo_name) - 4)) = records[Len(records)].name

\* C14: for every record list with no record whose name ends in "-vis",
\* get_bsp_file returns no record whenever the archive name does not end in
\* ".DGO" or ".CGO", or its extension-stripped lower-cased form differs from
\* the name of the last record, or the list is empty.
C14_NoFallbackNoRecord ==
  /\ Called("get_bsp_file")
  /\ VisPositions(unit_call.records) = {}
  /\ \/ ~HasArchiveExtension(unit_call.dgo_name)
     \/ ~NamedAfterLast(unit_call.records, unit_call.dgo_name)
  => unit_ret.value = [assert |-> FALSE, result |-> <<>>]

\* no record is returned although a record that is not the last one bears
\* the archive's name
C14_Witness ==
  /\ Called("get_bsp_file")
  /\ VisPositions(unit_call.records) = {}
  /\ HasArchiveExtension(unit_call.dgo_name)
  /\ ~NamedAfterLast(unit_call.records, unit_call.dgo_name)
  /\ \E k \in DOMAIN unit_call.records :
       NamedAfterLast(SubSeq(unit_call.records, 1, k), unit_call.dgo_name)
  /\ unit_ret.value = [assert |-> FALSE, result |-> <<>>]

\* C15: for every non-empty record list with no record whose name ends in
\* "-vis" and an archive name ending in ".DGO" or ".CGO", get_bsp_file returns
\* the last record exactly when the extension-stripped lower-cased archive
\* name equals the last record's name, and returns no record otherwise.
C15_FallbackIsLastRecord ==
  /\ Called("get_bsp_file")
  /\ unit_call.records # <<>>
  /\ VisPositions(unit_call.records) = {}
  /\ HasArchiveExtension(unit_call.dgo_name)
  => /\ ~unit_ret.value.assert
     /\ IF NamedAfterLast(unit_call.records, unit_call.dgo_name)
          THEN unit_ret.value.result
                 = <<[name |-> unit_call.records[Len(unit_call.records)].name,
                      linked_data |-> Len(unit_call.records)]>>
          ELSE unit_ret.value.result = <<>>

\* the last of several records is returned by the fallback
C15_Witness ==
  /\ Called("get_bsp_file")
  /\ Len(unit_call.records) > 1
  /\ VisPositions(unit_call.records) = {}
  /\ HasArchiveExtension(unit_call.dgo_name)
  /\ unit_call.records[1].name # Name_tst
  /\ unit_ret.value.result = <<[name |-> Name_tst, linked_data |-> Len(unit_call.records)]>>

\* the file has a first word in its first segment
HasFirstWord(file) ==
  /\ file.words_by_seg # <<>>
  /\ file.words_by_seg[1] # <<>>

\* C16: is_valid_bsp returns true exactly when the file has one segment, its
\* first word is a type-tag word and that word's symbol name is "bsp-header";
\* it returns false when a check is violated, and when the segment count is
\* not one it returns false without reading the first word.
C16_ValidExactly ==
  Called("is_valid_bsp")
    => LET file == unit_call.file
           valid == unit_ret.value
       IN  /\ valid.ok <=> /\ file.segments = 1
                           /\ HasFirstWord(file)
                           /\ file.words_by_seg[1][1].kind = "TYPE_PTR"
                           /\ file.words_by_seg[1][1].symbol_name = "bsp-header"
           /\ file.segments # 1 => ~valid.read_first /\ ~valid.thrown
           /\ file.segments = 1 => valid.read_first
           /\ HasFirstWord(file) => ~valid.thrown

\* a file with two segments whose first word is the bsp-header type tag has
\* been rejected without its first word being read
C16_Witness ==
  /\ Called("is_valid_bsp")
  /\ unit_call.file.segments = 2
  /\ unit_call.file.words_by_seg = <<<<[kind |-> "TYPE_PTR", symbol_name |-> "bsp-header"]>>>>
  /\ unit_ret.value = [ok |-> FALSE, read_first |-> FALSE, thrown |-> FALSE]

\* the root the locator returns for the archive of the single call, as <<>> or <<r>>
LocatedRoot ==
  get_bsp_file(unit_call.db.obj_files_by_dgo[unit_call.dgo_name], unit_call.dgo_name).result

\* the file is a one-segment file whose first word is the type tag bsp-header
PassesChecks(file) ==
  /\ file.segments = 1
  /\ file.words_by_seg[1][1].kind = "TYPE_PTR"
  /\ file.words_by_seg[1][1].symbol_name = "bsp-header"

\* C17: in extract_bsp_from_level a located root that fails is_valid_bsp
\* aborts the call before the header is decoded and before any extractor is
\* called; every terrain, tie, shrub or collision extractor call is preceded
\* by a successful validation of the level's root.
C17_ValidatedBeforeExtraction ==
  Called("extract_bsp_from_level")
    => LET out == unit_ret.value
       IN  /\ (LocatedRoot # <<>> /\ ~PassesChecks(LocatedRoot[1].linked_data))
                => /\ out.fatal = "assert"
                   /\ out.validated
                   /\ ~out.decoded
                   /\ out.level_data = unit_call.level_data
           /\ TreeCalls(out.level_data) # <<>>
                => /\ LocatedRoot # <<>>
                   /\ PassesChecks(LocatedRoot[1].linked_data)
                   /\ out.validated

\* a located root that has trees and fails a check has aborted the call
C17_Witness ==
  /\ Called("extract_bsp_from_level")
  /\ LocatedRoot # <<>>
  /\ ~PassesChecks(LocatedRoot[1].linked_data)
  /\ LocatedRoot[1].linked_data.bsp.trees # <<>>
  /\ unit_ret.value.fatal = "assert"

\* the single call has a located root that passes the checks of is_valid_bsp
Dispatched ==
  /\ Called("extract_bsp_from_level")
  /\ LocatedRoot # <<>>
  /\ PassesChecks(LocatedRoot[1].linked_data)

\* the trees of the located root
RootTrees ==
  LocatedRoot[1].linked_data.bsp.trees

\* the positions of the collision trees of the located root
CollideTrees ==
  {k \in DOMAIN RootTrees : RootTrees[k].my_type = "drawable-tree-collide-fragment"}

\* the calls of the collision extractor recorded by the single call
CollideCalls ==
  SelectSeq(unit_ret.value.level_data.extracted, LAMBDA c : c.fn = "extract_collide_frags")

\* the trees before position k that an extractor is called for when
\* collision extraction is enabled
ExtractedBefore(k) ==
  {j \in 1..(k - 1) : RootTrees[j].my_type # "drawable-tree-actor"}

\* C18: with collision extraction enabled, a root with no or one collision
\* tree is dispatched without abort, the one tree being passed to the
\* collision extractor once; a root with two or more aborts the call when
\* the second is reached, before the collision extractor is called again.
C18_AtMostOneCollisionTree ==
  Dispatched /\ unit_call.extract_collision
    => IF Cardinality(CollideTrees) <= 1
         THEN /\ unit_ret.value.fatal = ""
              /\ Len(CollideCalls) = Cardinality(CollideTrees)
              /\ \A k \in CollideTrees : CollideCalls[1].arg[1] = k
         ELSE LET first == CHOOSE k \in CollideTrees : \A m \in CollideTrees : k <= m
                  second == CHOOSE k \in CollideTrees \ {first} :
                              \A m \in CollideTrees \ {first} : k <= m
              IN  /\ unit_ret.value.fatal = "assert"
                  /\ Len(CollideCalls) = 1
                  /\ CollideCalls[1].arg[1] = first
                  /\ Len(TreeCalls(unit_ret.value.level_data))
                       = Cardinality(ExtractedBefore(second))

\* a root with two collision trees and a tree after them has aborted the call
C18_Witness ==
  /\ Dispatched
  /\ unit_call.extract_collision
  /\ Cardinality(CollideTrees) = 2
  /\ \E k \in DOMAIN RootTrees :
       /\ \A m \in CollideTrees : m < k
       /\ RootTrees[k].my_type = "drawable-tree-tfrag"
  /\ unit_ret.value.fatal = "assert"

\* C19: add_all_textures_from_level rejects, with a failed assertion and the
\* list unchanged, a level record whose texture list is not empty; when the
\* level name is not a key of the per-level id index it returns without
\* error and leaves the list empty.
C19_TexturesPrecondition ==
  Called("add_all_textures_from_level")
    => /\ unit_call.lev.textures # <<>>
            => unit_ret.value = [fatal |-> "assert", lev |-> unit_call.lev]
       /\ (/\ unit_call.lev.textures = <<>>
           /\ unit_call.level_name \notin DOMAIN unit_call.tex_db.texture_ids_per_level)
            => unit_ret.value = [fatal |-> "", lev |-> unit_call.lev]

\* a record that already holds a texture has been rejected for a level name
\* with registered textures
C19_Witness ==
  /\ Called("add_all_textures_from_level")
  /\ unit_call.lev.textures # <<>>
  /\ unit_call.level_name \in DOMAIN unit_call.tex_db.texture_ids_per_level
  /\ unit_call.tex_db.texture_ids_per_level[unit_call.level_name] # {}
  /\ unit_ret.value.fatal = "assert"

\* the single call is add_all_textures_from_level on an empty list, with a
\* registered level name
CollatesRegistered ==
  /\ Called("add_all_textures_from_level")
  /\ unit_call.lev.textures = <<>>
  /\ unit_call.level_name \in DOMAIN unit_call.tex_db.texture_ids_per_level

\* C20: after add_all_textures_from_level on an empty list with a registered
\* level name, the list has exactly one entry per id registered for that
\* level, in ascending id order, each with combo_id the id, the pool
\* texture's w, h and bytes, debug name page name + texture name, and
\* load_to_pool true; no other texture is added.
C20_TexturesOfLevel ==
  CollatesRegistered
    => LET pool == unit_call.tex_db
           ids == pool.texture_ids_per_level[unit_call.level_name]
           complete == \A id \in ids :
                         /\ id \in DOMAIN pool.textures
                         /\ pool.textures[id].page \in DOMAIN pool.tpage_names
           out == unit_ret.value
           list == out.lev.textures
       IN  /\ complete <=> out.fatal = ""
           /\ out.fatal = ""
                => /\ Len(list) = Cardinality(ids)
                   /\ {list[k].combo_id : k \in DOMAIN list} = ids
                   /\ \A k \in DOMAIN list :
                        LET tex == pool.textures[list[k].combo_id]
                        IN  /\ k > 1 => list[k - 1].combo_id < list[k].combo_id
                            /\ list[k].w = tex.w
                            /\ list[k].h = tex.h
                            /\ list[k].data = tex.rgba_bytes
                            /\ list[k].debug_name = pool.tpage_names[tex.page] \o tex.name
                            /\ list[k].load_to_pool
                   /\ out.lev.level_name = unit_call.lev.level_name
                   /\ out.lev.extracted = unit_call.lev.extracted

\* two textures have been copied for a level that another level's texture
\* is not registered for
C20_Witness ==
  /\ CollatesRegistered
  /\ \E other \in DOMAIN unit_call.tex_db.texture_ids_per_level :
       /\ other # unit_call.level_name
       /\ unit_call.tex_db.texture_ids_per_level[other]
            \cap unit_call.tex_db.texture_ids_per_level[unit_call.level_name] = {}
       /\ unit_call.tex_db.texture_ids_per_level[other] # {}
  /\ unit_ret.value.fatal = ""
  /\ Len(unit_ret.value.lev.textures) = 2

\* the key of a pool texture: its page name followed by its texture name
TextureKey(pool, id) ==
  pool.tpage_names[pool.textures[id].page] \o pool.textures[id].name

\* every two pool textures with the same key have the same bytes
SameKeySameBytes(pool) ==
  \A a, b \in DOMAIN pool.textures :
    TextureKey(pool, a) = TextureKey(pool, b)
      => pool.textures[a].rgba_bytes = pool.textures[b].rgba_bytes

\* C21: confirm_textures_identical completes without abort exactly when every
\* two pool textures with the same key have identical bytes, and aborts when
\* two textures with the same key differ, whatever the iteration order.
C21_IdenticalOrAbort ==
  Called("confirm_textures_identical")
    => /\ unit_ret.value = "" <=> SameKeySameBytes(unit_call.tex_db)
       /\ ~SameKeySameBytes(unit_call.tex_db) => unit_ret.value = "assert"

\* the verification has aborted on two textures of different pages whose
\* keys are equal and whose bytes have the same size
C21_Witness ==
  /\ Called("confirm_textures_identical")
  /\ unit_ret.value = "assert"
  /\ \E a, b \in DOMAIN unit_call.tex_db.textures :
       /\ TextureKey(unit_call.tex_db, a) = TextureKey(unit_call.tex_db, b)
       /\ unit_call.tex_db.textures[a].page # unit_call.tex_db.textures[b].page
       /\ unit_call.tex_db.textures[a].rgba_bytes # unit_call.tex_db.textures[b].rgba_bytes
       /\ Len(unit_call.tex_db.textures[a].rgba_bytes)
            = Len(unit_call.tex_db.textures[b].rgba_bytes)

\* the number of confirm_textures_identical calls a packager call has made
VerificationsIn(pk) ==
  Len(SelectSeq(pk.steps, LAMBDA step : step = "confirm_textures_identical"))

RECURSIVE SumVerifications(_)
\* the number of confirm_textures_identical calls the tasks of a set have made
SumVerifications(indices) ==
  IF indices = {} THEN 0
  ELSE LET idx == CHOOSE i \in indices : TRUE
       IN  VerificationsIn(tasks[idx].pk) + SumVerifications(indices \ {idx})

\* the number of confirm_textures_identical calls made so far in the run
Verifications ==
  VerificationsIn(common.pk) + SumVerifications(DOMAIN tasks)

\* the tasks that have packaged a full level: their archive is in the input
PackagedLevels ==
  {idx \in Started : tasks[idx].dgo_name \in DOMAIN db.obj_files_by_dgo}

\* C22: in every run with a non-empty texture pool, confirm_textures_identical
\* has been executed exactly once, and has completed, before any full level
\* is packaged, also when the common archive is not part of the input.
C22_VerifiedBeforeLevels ==
  (DOMAIN tex_db.textures # {} /\ PackagedLevels # {})
    => /\ Verifications = 1
       /\ common.pk.outcome # "fatal"

\* C22 (amended): in every run with a non-empty texture pool and the common
\* archive in the input, confirm_textures_identical has been executed exactly
\* once, by the common pass, and has completed before any full level is
\* packaged; when the common archive is not in the input it is not executed
\* at all and the levels are packaged without it.
C22_VerifiedOnlyWithCommon ==
  (DOMAIN tex_db.textures # {} /\ PackagedLevels # {})
    => IF common_name \in DOMAIN db.obj_files_by_dgo
         THEN /\ Verifications = 1
              /\ VerificationsIn(common.pk) = 1
              /\ common.pc = "returned"
              /\ common.pk.outcome = "write"
              /\ SameKeySameBytes(tex_db)
         ELSE Verifications = 0

\* a full level has been packaged and written after the one verification of
\* the common pass
C22_Witness ==
  /\ DOMAIN tex_db.textures # {}
  /\ common_name \in DOMAIN db.obj_files_by_dgo
  /\ Verifications = 1
  /\ \E idx \in PackagedLevels :
       /\ tasks[idx].pk.outcome = "write"
       /\ tasks[idx].written # {}

\* the name of the located root without the suffix "-vis", if it ends in it
WithoutVisSuffix(name) ==
  IF ends_with(name, Suffix_vis) THEN SubSeq(name, 1, Len(name) - Len(Suffix_vis)) ELSE name

\* C23: after extract_bsp_from_level completes on a located root, the level
\* record's name is the root record's name with the suffix "-vis" removed;
\* for a root located by the fallback, whose name carries no "-vis" suffix,
\* it is the whole record name.
C23_LevelNameFromRoot ==
  (Dispatched /\ unit_ret.value.fatal = "")
    => unit_ret.value.level_data.level_name = WithoutVisSuffix(LocatedRoot[1].name)

\* the call whose write to the file is the last one when the level tasks run
\* one after the other in the order of dgo_names: the last task that writes
\* the file, or extract_common (0) when no task writes it
SequentialWriter(name) ==
  LET writers == {idx \in DOMAIN tasks : name \in tasks[idx].written}
  IN  IF writers = {} THEN 0
      ELSE CHOOSE idx \in writers : \A other \in writers : other <= idx

\* the buffer the call writes
BufferOf(writer) ==
  IF writer = 0 THEN Compressed(common.pk) ELSE Compressed(tasks[writer].pk)

\* C24: packaging is deterministic: whatever the scheduling of the level
\* tasks, a run that has returned leaves in every output file the content
\* that the run with the same inputs and the tasks scheduled one after the
\* other leaves in it.
C24_Deterministic ==
  Returned
    => \A name \in DOMAIN files : FileContent(name) = BufferOf(SequentialWriter(name))

\* an extractor is called for the tree at position j of the located root
IsDispatched(j) ==
  /\ RootTrees[j].my_type # "drawable-tree-actor"
  /\ RootTrees[j].my_type = "drawable-tree-collide-fragment" => unit_call.extract_collision

\* the suffix of the identifier each extractor is given
IdentifierSuffix(fn) ==
  CASE fn = "extract_tfrag" -> <<>>
    [] fn = "extract_tie" -> <<"-","t","i","e">>
    [] fn = "extract_shrub" -> <<"-","s","h","r","u","b">>
    [] fn = "extract_collide_frags" -> <<"-","c","o","l","l","i","d","e">>

\* the extractor calls of the single call, in the order they were made
ExtractorCalls ==
  TreeCalls(unit_ret.value.level_data)

\* C25: within one extract_bsp_from_level call the k-th extractor call
\* carries the tree index k-1 in its identifier "<dgo>-<i><suffix>", no two
\* extractor calls carry the same index, and a tree that is skipped as
\* unsupported consumes no index.
C25_TreeIndex ==
  Dispatched
    => /\ \A k \in DOMAIN ExtractorCalls :
            /\ ExtractorCalls[k].index = k - 1
            /\ ExtractorCalls[k].name
                 = unit_call.dgo_name \o <<"-">> \o Decimal(k - 1)
                     \o IdentifierSuffix(ExtractorCalls[k].fn)
            /\ ExtractorCalls[k].index
                 = Cardinality({j \in 1..(ExtractorCalls[k].arg[1] - 1) : IsDispatched(j)})
       /\ \A a, b \in DOMAIN ExtractorCalls :
            a # b => ExtractorCalls[a].name # ExtractorCalls[b].name

\* an extractor has been called for a tree stored after a skipped tree and
\* after a dispatched tree
C25_Witness ==
  /\ Dispatched
  /\ Len(ExtractorCalls) = 2
  /\ ExtractorCalls[2].arg[1] = 3
  /\ ~IsDispatched(2)
  /\ ExtractorCalls[2].index = 1

\* the positions of the TIE trees of the located root
TiePositions ==
  {j \in DOMAIN RootTrees : RootTrees[j].my_type = "drawable-tree-instance-tie"}

\* C26: the collision extractor receives all TIE trees of the root, in
\* stored order, including the TIE trees stored after the collision tree.
C26_AllTiesToCollision ==
  Dispatched
    => \A k \in DOMAIN CollideCalls :
         LET ties == CollideCalls[k].arg[2]
         IN  /\ Len(ties) = Cardinality(TiePositions)
             /\ {ties[n] : n \in DOMAIN ties} = TiePositions
             /\ \A n \in DOMAIN ties : n > 1 => ties[n - 1] < ties[n]

\* the collision extractor has been given a TIE tree stored before the
\* collision tree and one stored after it
C26_Witness ==
  /\ Dispatched
  /\ Len(CollideCalls) = 1
  /\ \E before, after \in TiePositions :
       /\ before < CollideCalls[1].arg[1]
       /\ CollideCalls[1].arg[1] < after
       /\ CollideCalls[1].arg[2] = <<before, after>>

\* the positions of the trees of the located root that an extractor is
\* called for, in stored order
DispatchedPositions ==
  SelectSeq([j \in DOMAIN RootTrees |-> j], IsDispatched)

\* C27: a tree whose type tag is outside the recognized vocabulary, and any
\* collision tree met while collision extraction is disabled, is skipped
\* without abort: no extractor is called for it, the level record is not
\* changed by it, and every later tree of the root is still dispatched.
C27_SkippedTrees ==
  (Dispatched /\ (unit_call.extract_collision => Cardinality(CollideTrees) <= 1))
    => /\ unit_ret.value.fatal = ""
       /\ [k \in DOMAIN ExtractorCalls |-> ExtractorCalls[k].arg[1]] = DispatchedPositions
       /\ Len(unit_ret.value.level_data.extracted) = Len(DispatchedPositions)
       /\ unit_ret.value.level_data.textures = unit_call.level_data.textures

\* with collision extraction disabled, a collision tree and a tree of an
\* unknown type have been skipped and the third tree has been dispatched
C27_Witness ==
  /\ Dispatched
  /\ ~unit_call.extract_collision
  /\ Cardinality(CollideTrees) >= 1
  /\ \E j \in DOMAIN RootTrees : RootTrees[j].my_type = "drawable-tree-actor"
  /\ Len(RootTrees) = 3
  /\ IsDispatched(3)
  /\ unit_ret.value.fatal = ""
  /\ Len(ExtractorCalls) = 1

\* the extractor call was made for the archive the single call was made for:
\* a tree identifier starts with the archive name, an art group is a record
\* of the archive
OfOwnArchive(c) ==
  IF c.fn = "extract_merc"
    THEN /\ unit_call.dgo_name \in DOMAIN unit_call.db.obj_files_by_dgo
         /\ \E k \in DOMAIN unit_call.db.obj_files_by_dgo[unit_call.dgo_name] :
              unit_call.db.obj_files_by_dgo[unit_call.dgo_name][k].name = c.name
    ELSE /\ Len(c.name) >= Len(unit_call.dgo_name)
         /\ SubSeq(c.name, 1, Len(unit_call.dgo_name)) = unit_call.dgo_name

====
